---- MODULE Spec2Model ----
(***************************************************************************)
(* Model of llm_benchmark.py: the settings writer / restorer, the          *)
(* benchmark runner, the completion checker, the metrics calculator and    *)
(* the report generator.                                                   *)
(*                                                                         *)
(* Files are records [state, data]; state is "absent", "partial" (opened   *)
(* for writing, not yet closed) or "full".                                 *)
(***************************************************************************)
EXTENDS Integers, Sequences, FiniteSets, TLC

VARIABLES
    fs,          \* working directory: settings.js, settings.js.bak, settings.js.tmp
    pc,          \* position inside edit_settings ("idle" between calls)
    newContent,  \* local settings_content of the running edit_settings
    pre,         \* history: settings.js as it was when the last edit_settings began
    hist,        \* history: the last two completed settings operations
    snap,        \* history: fs as it was when the last operation began
    established, \* history: settings.js was there at the start, or an edit completed
    seen,        \* the last read of settings.js by a concurrently starting process
    memory,      \* bots/<agent_name>/memory.json
    checked,     \* outcome of the last check_task_completion call
    measured,    \* outcome of the last calculate_metrics call
    staged,      \* the profile copied into the working directory
    actionCode,  \* bots/<agent_name>/action-code/
    results_dir, \* the results directory of the current run_benchmark call
    run,         \* the current run_benchmark call and what its subprocess did
    returned,    \* how the last run_benchmark call ended
    results,     \* the mapping model -> task -> run -> metrics given to generate_report
    report       \* benchmark_data.csv, benchmark_summary.csv and how the call ended

settingsVars == <<fs, pc, newContent, pre, hist, snap, established, seen>>

memoryVars == <<memory, checked, measured>>

runVars == <<staged, actionCode, results_dir, run, returned>>

reportVars == <<results, report>>

vars == <<settingsVars, memoryVars, runVars, reportVars>>

\* what the steps of edit_settings and restore_settings leave alone
settingsFrame == <<memoryVars, runVars, reportVars>>

\* what the readers of the memory log leave alone
memoryFrame == <<memory, settingsVars, runVars, reportVars>>

\* what run_benchmark leaves alone
runFrame == <<pc, newContent, pre, hist, snap, established, seen,
              checked, measured, reportVars>>

\* what generate_report leaves alone
reportFrame == <<results, settingsVars, memoryVars, runVars>>

----------------------------------------------------------------------------
(* Settings documents                                                      *)

FileNames == {"settings.js", "settings.js.bak", "settings.js.tmp"}

\* json.dumps(profiles) for the profile lists the runner passes
ProfileArgs == {<<"./andy.json">>, <<"./bob.json">>}

settings_content(profiles) ==
    [profiles              |-> profiles,
     allow_insecure_coding |-> TRUE,
     port                  |-> 55916,
     num_examples          |-> 3,
     relevant_docs_count   |-> 5,
     code_timeout_mins     |-> 5,
     base_profile          |-> "./profiles/defaults/_default.json"]

\* settings.js documents a user may have in place before the script runs
UserSettings ==
    { [profiles              |-> <<"./andy.json">>,
       allow_insecure_coding |-> FALSE,
       port                  |-> 55916,
       num_examples          |-> 2,
       relevant_docs_count   |-> 5,
       code_timeout_mins     |-> 10,
       base_profile          |-> "./profiles/defaults/_default.json"],
      [profiles              |-> <<"./andy.json">>,
       allow_insecure_coding |-> TRUE,
       port                  |-> 55916,
       num_examples          |-> 3,
       relevant_docs_count   |-> 5,
       code_timeout_mins     |-> 5,
       base_profile          |-> "./profiles/defaults/_default.json"] }

NoData == settings_content(<<>>)

Absent == [state |-> "absent", data |-> NoData]

Partial == [state |-> "partial", data |-> NoData]

Full(doc) == [state |-> "full", data |-> doc]

Exists(f, name) == f[name].state # "absent"

----------------------------------------------------------------------------
(* edit_settings, step by step                                             *)

\* open("settings.js.tmp", 'w'): creates or truncates the file
OpenTmp(f) == [f EXCEPT !["settings.js.tmp"] = Partial]

\* f.write(settings_content) and the close at the end of the with block
WriteTmp(f, content) == [f EXCEPT !["settings.js.tmp"] = Full(content)]

\* shutil.copy opens the destination for writing before it copies
OpenBackup(f) == [f EXCEPT !["settings.js.bak"] = Partial]

BackupCopyRename(f) ==
    [f EXCEPT !["settings.js.bak"] = f["settings.js"],
              !["settings.js"] = Absent]

\* shutil.copy("settings.js", "settings.js.bak"): settings.js stays in place
BackupCopy(f) == [f EXCEPT !["settings.js.bak"] = f["settings.js"]]

MoveTmpToBackup(f) ==
    [f EXCEPT !["settings.js.bak"] = f["settings.js.tmp"],
              !["settings.js.tmp"] = Absent]

\* shutil.move("settings.js.tmp", "settings.js"): both names are in the
\* working directory, so the move is os.rename, which replaces the
\* destination in one step
MoveTmp(f) ==
    [f EXCEPT !["settings.js"] = f["settings.js.tmp"],
              !["settings.js.tmp"] = Absent]

\* the whole call, as a function of the directory it starts in
edit_settings(f, profiles) ==
    LET written == WriteTmp(OpenTmp(f), settings_content(profiles))
        backed  == IF Exists(written, "settings.js")
                   THEN BackupCopy(OpenBackup(written))
                   ELSE written
    IN  MoveTmp(backed)

restore_settings_copy(f) ==
    IF Exists(f, "settings.js.bak")
    THEN [f EXCEPT !["settings.js"] = f["settings.js.bak"]]
    ELSE f

\* if the backup exists, shutil.move puts it back in place; else nothing
restore_settings(f) ==
    IF Exists(f, "settings.js.bak")
    THEN [f EXCEPT !["settings.js"] = f["settings.js.bak"],
                   !["settings.js.bak"] = Absent]
    ELSE f

Push(h, op) == IF Len(h) < 2 THEN Append(h, op) ELSE <<h[2], op>>

SettingsInit ==
    /\ fs \in { [n \in FileNames |->
                   CASE n = "settings.js"     -> s
                     [] n = "settings.js.bak" -> b
                     [] OTHER                 -> Absent]
                : s \in {Absent} \cup {Full(d) : d \in UserSettings},
                  b \in {Absent} \cup {Full(d) : d \in UserSettings} }
    /\ pc = "idle"
    /\ newContent = NoData
    /\ pre = Absent
    /\ hist = <<>>
    /\ snap = fs
    /\ established = Exists(fs, "settings.js")
    /\ seen = [value |-> Absent, during |-> FALSE, old |-> Absent, new |-> NoData]

EditBegin ==
    /\ pc = "idle"
    /\ \E profiles \in ProfileArgs :
          newContent' = settings_content(profiles)
    /\ fs' = OpenTmp(fs)
    /\ pre' = fs["settings.js"]
    /\ snap' = fs
    /\ pc' = "tmp_open"
    /\ UNCHANGED <<hist, established, seen>>
    /\ UNCHANGED settingsFrame

EditWriteTmp ==
    /\ pc = "tmp_open"
    /\ fs' = WriteTmp(fs, newContent)
    /\ pc' = "tmp_written"
    /\ UNCHANGED <<newContent, pre, hist, snap, established, seen>>
    /\ UNCHANGED settingsFrame

EditBackupOpen ==
    /\ pc = "tmp_written"
    /\ Exists(fs, "settings.js")
    /\ fs' = OpenBackup(fs)
    /\ pc' = "bak_open"
    /\ UNCHANGED <<newContent, pre, hist, snap, established, seen>>
    /\ UNCHANGED settingsFrame

EditBackupSkip ==
    /\ pc = "tmp_written"
    /\ ~Exists(fs, "settings.js")
    /\ pc' = "moving"
    /\ UNCHANGED <<fs, newContent, pre, hist, snap, established, seen>>
    /\ UNCHANGED settingsFrame

EditBackupDone ==
    /\ pc = "bak_open"
    /\ fs' = BackupCopy(fs)
    /\ pc' = "moving"
    /\ UNCHANGED <<newContent, pre, hist, snap, established, seen>>
    /\ UNCHANGED settingsFrame

EditMove ==
    /\ pc = "moving"
    /\ fs' = MoveTmp(fs)
    /\ pc' = "idle"
    /\ hist' = Push(hist, "edit")
    /\ established' = TRUE
    /\ UNCHANGED <<newContent, pre, snap, seen>>
    /\ UNCHANGED settingsFrame

Restore ==
    /\ pc = "idle"
    /\ fs' = restore_settings(fs)
    /\ snap' = fs
    /\ hist' = Push(hist, "restore")
    /\ UNCHANGED <<pc, newContent, pre, established, seen>>
    /\ UNCHANGED settingsFrame

\* another process opens and reads settings.js
ReadSettings ==
    /\ seen' = [value  |-> fs["settings.js"],
                during |-> pc # "idle",
                old    |-> pre,
                new    |-> newContent]
    /\ UNCHANGED <<fs, pc, newContent, pre, hist, snap, established>>
    /\ UNCHANGED settingsFrame

SettingsNext ==
    \/ EditBegin
    \/ EditWriteTmp
    \/ EditBackupOpen
    \/ EditBackupSkip
    \/ EditBackupDone
    \/ EditMove
    \/ Restore
    \/ ReadSettings

----------------------------------------------------------------------------
(* The memory log                                                          *)

MaxTurns == 3

Roles == {"system", "user"}

\* Turn contents are sequences of text pieces; the character length of a
\* content is the sum of the lengths of its pieces.
PieceLen(piece) ==
    CASE piece = "Hello"                        -> 5
      [] piece = "Task ended with "             -> 16
      [] piece = "code"                         -> 4
      [] piece = " : "                          -> 3
      [] piece = "2"                            -> 1
      [] piece = "3"                            -> 1
      [] piece = "4"                            -> 1
      [] piece = "Generated "                   -> 10
      [] piece = ":"                            -> 1
      [] piece = "Code generation result: true" -> 28

Contents ==
    { <<"Hello">>,
      <<"Task ended with ", "code", " : ", "2">>,
      <<"Task ended with ", "code", " : ", "4">>,
      <<"Task ended with ", "code", " : ", "3">>,
      <<"code", " : ", "2", "code", " : ", "4">>,
      <<"Generated ", "code", ":">>,
      <<"Code generation result: true">>,
      <<"Generated ", "code", ":", "Code generation result: true">> }

Turns == [role : Roles, content : Contents]

RECURSIVE SeqsUpTo(_, _)
SeqsUpTo(S, n) ==
    IF n = 0 THEN {<<>>}
    ELSE LET shorter == SeqsUpTo(S, n - 1)
         IN  shorter \cup {Append(q, x) : q \in {r \in shorter : Len(r) = n - 1}, x \in S}

\* memory.json: missing, not valid JSON, or a log of turns
MemAbsent == [kind |-> "absent", turns |-> <<>>]

MemCorrupt == [kind |-> "corrupt", turns |-> <<>>]

Log(turns) == [kind |-> "log", turns |-> turns]

MemoryStates(n) ==
    {MemAbsent, MemCorrupt} \cup {Log(q) : q \in SeqsUpTo(Turns, n)}

\* Python's  needle in haystack  on strings
Contains(needle, hay) ==
    \E i \in 0..(Len(hay) - Len(needle)) :
        SubSeq(hay, i + 1, i + Len(needle)) = needle

RECURSIVE len(_)
len(content) ==
    IF content = <<>> THEN 0 ELSE PieceLen(Head(content)) + len(Tail(content))

CODE == <<"code">>

CODE_2 == <<"code", " : ", "2">>

CODE_4 == <<"code", " : ", "4">>

GENERATED_CODE == <<"Generated ", "code", ":">>

RESULT_TRUE == <<"Code generation result: true">>

\* a call's outcome: the exception that left it, if any, and the value returned
Returned(v) == [exc |-> "none", ret |-> v]

Raised(e, v) == [exc |-> e, ret |-> v]

----------------------------------------------------------------------------
(* check_task_completion                                                   *)

RECURSIVE ScanForward(_, _)
ScanForward(turns, i) ==
    IF i > Len(turns) THEN FALSE
    ELSE LET turn == turns[i]
         IN  IF turn.role = "system" /\ Contains(CODE, turn.content)
             THEN IF Contains(CODE_2, turn.content) THEN TRUE
                  ELSE IF Contains(CODE_4, turn.content) THEN FALSE
                  ELSE ScanForward(turns, i + 1)
             ELSE ScanForward(turns, i + 1)

RECURSIVE ScanReversed(_, _)
\* for turn in reversed(memory['turns']), from turn i down to the first
ScanReversed(turns, i) ==
    IF i = 0 THEN FALSE
    ELSE LET turn == turns[i]
         IN  IF turn.role = "system" /\ Contains(CODE, turn.content)
             THEN IF Contains(CODE_2, turn.content) THEN TRUE
                  ELSE IF Contains(CODE_4, turn.content) THEN FALSE
                  ELSE ScanReversed(turns, i - 1)
             ELSE ScanReversed(turns, i - 1)

check_task_completion_forward(mem) ==
    CASE mem.kind \in {"absent", "corrupt"} -> Returned(FALSE)
      [] OTHER -> Returned(ScanForward(mem.turns, 1))

RECURSIVE ScanReversedStopAtCode(_, _)
ScanReversedStopAtCode(turns, i) ==
    IF i = 0 THEN FALSE
    ELSE LET turn == turns[i]
         IN  IF turn.role = "system" /\ Contains(CODE, turn.content)
             THEN Contains(CODE_2, turn.content)
             ELSE ScanReversedStopAtCode(turns, i - 1)

check_task_completion_stop_at_code(mem) ==
    CASE mem.kind \in {"absent", "corrupt"} -> Returned(FALSE)
      [] OTHER -> Returned(ScanReversedStopAtCode(mem.turns, Len(mem.turns)))

check_task_completion_default_true(mem) ==
    CASE mem.kind \in {"absent", "corrupt"} -> Returned(TRUE)
      [] OTHER -> Returned(ScanReversed(mem.turns, Len(mem.turns)))

check_task_completion_uncaught(mem) ==
    CASE mem.kind = "absent"  -> Returned(FALSE)
      [] mem.kind = "corrupt" -> Raised("JSONDecodeError", FALSE)
      [] OTHER -> Returned(ScanReversed(mem.turns, Len(mem.turns)))

\* FileNotFoundError and JSONDecodeError are caught; the function then
\* falls through to the final return False
check_task_completion(mem) ==
    CASE mem.kind \in {"absent", "corrupt"} -> Returned(FALSE)
      [] OTHER -> Returned(ScanReversed(mem.turns, Len(mem.turns)))

----------------------------------------------------------------------------
(* calculate_metrics                                                       *)

\* numbers that Python computes with / are kept as exact fractions
Rat(n, d) == [num |-> n, den |-> d]

RatEq(a, b) == a.num * b.den = b.num * a.den

RatAdd(a, b) == Rat(a.num * b.den + b.num * a.den, a.den * b.den)

Zero == Rat(0, 1)

InitialMetrics(time_taken, success) ==
    [task_completion             |-> success,
     time_taken                  |-> time_taken,
     code_generation_attempts    |-> 0,
     code_execution_success_rate |-> Zero,
     tokens_consumed             |-> Zero]

RECURSIVE CountTurnsAnyRole(_, _)
CountTurnsAnyRole(turns, needle) ==
    IF turns = <<>> THEN 0
    ELSE (IF Contains(needle, Head(turns).content) THEN 1 ELSE 0)
         + CountTurnsAnyRole(Tail(turns), needle)

RECURSIVE CountTurns(_, _)
\* the loop over memory['turns']: the system turns whose content has needle
CountTurns(turns, needle) ==
    IF turns = <<>> THEN 0
    ELSE LET turn == Head(turns)
         IN  (IF turn.role = "system" /\ Contains(needle, turn.content) THEN 1 ELSE 0)
             + CountTurns(Tail(turns), needle)

RECURSIVE TotalChars(_)
\* sum(len(turn['content']) for turn in memory['turns'])
TotalChars(turns) ==
    IF turns = <<>> THEN 0 ELSE len(Head(turns).content) + TotalChars(Tail(turns))

MetricsFromLog(turns, time_taken, success) ==
    LET code_attempts  == CountTurns(turns, GENERATED_CODE)
        code_successes == CountTurns(turns, RESULT_TRUE)
    IN  [task_completion             |-> success,
         time_taken                  |-> time_taken,
         code_generation_attempts    |-> code_attempts,
         code_execution_success_rate |->
             IF code_attempts > 0 THEN Rat(code_successes, code_attempts) ELSE Zero,
         tokens_consumed             |-> Rat(TotalChars(turns), 4)]

\* the metrics keep their initial values when the log cannot be read
calculate_metrics(mem, time_taken, success) ==
    CASE mem.kind \in {"absent", "corrupt"} ->
             Returned(InitialMetrics(time_taken, success))
      [] OTHER -> Returned(MetricsFromLog(mem.turns, time_taken, success))

----------------------------------------------------------------------------
(* The two readers of the memory log, applied to every memory file         *)

ElapsedTimes == {1, 2}

MemoryInit ==
    /\ memory \in MemoryStates(MaxTurns)
    /\ checked = [done |-> FALSE, out |-> Returned(FALSE)]
    /\ measured = [done |-> FALSE, out |-> Returned(InitialMetrics(0, FALSE))]

CheckTaskCompletion ==
    /\ ~checked.done
    /\ checked' = [done |-> TRUE, out |-> check_task_completion(memory)]
    /\ UNCHANGED <<measured, memoryFrame>>

CalculateMetrics ==
    /\ ~measured.done
    /\ \E time_taken \in ElapsedTimes, success \in BOOLEAN :
          measured' = [done |-> TRUE,
                       out  |-> calculate_metrics(memory, time_taken, success)]
    /\ UNCHANGED <<checked, memoryFrame>>

MemoryNext == CheckTaskCompletion \/ CalculateMetrics

----------------------------------------------------------------------------
(* run_benchmark                                                           *)

RunMaxTurns == 1

\* one model whose profile file exists and one whose profile is missing
Models ==
    { [name |-> "gpt", profile |-> "profiles/gpt.json"],
      [name |-> "ghost", profile |-> "profiles/missing.json"] }

\* the profile documents on disk: profiles/gpt.json has "name": "andy"
ProfileFile(path) ==
    IF path = "profiles/gpt.json"
    THEN [exists |-> TRUE, name |-> "andy"]
    ELSE [exists |-> FALSE, name |-> ""]

\* a task with the default time limit and one that sets its own
Tasks ==
    { [id |-> "t1", time_limit |-> <<>>],
      [id |-> "t2", time_limit |-> <<30>>] }

DefaultTimeLimit == 900

TimeoutBuffer == 60

\* task.get('time_limit', 900) + 60
Timeout(task) ==
    (IF task.time_limit = <<>> THEN DefaultTimeLimit ELSE task.time_limit[1])
    + TimeoutBuffer

\* f"./{agent_name}.json"
BenchmarkProfilePath(agent_name) ==
    CASE agent_name = "andy" -> "./andy.json"
      [] OTHER               -> "./.json"

NoStaged == [path |-> "", source |-> ""]

setup_profile(model) ==
    LET profile_path == model.profile
        agent_name   == ProfileFile(profile_path).name
    IN  IF ~ProfileFile(profile_path).exists
        THEN Raised("FileNotFoundError", [agent_name |-> "", profile_path |-> ""])
        ELSE Returned([agent_name   |-> agent_name,
                       profile_path |-> BenchmarkProfilePath(agent_name)])

\* what the subprocess can leave on its two streams
ProcessOutputs ==
    { [stdout |-> <<"output">>, stderr |-> <<>>],
      [stdout |-> <<>>, stderr |-> <<"warning">>] }

NoFile == [exists |-> FALSE, text |-> <<>>]

File(text) == [exists |-> TRUE, text |-> text]

ActionFiles == {"action1.js"}

NoActionDir == [exists |-> FALSE, files |-> {}]

ActionDirs == {NoActionDir} \cup {[exists |-> TRUE, files |-> F] : F \in SUBSET ActionFiles}

\* what the agent process can leave in bots/<agent_name>/memory.json
RunContents ==
    { <<"Task ended with ", "code", " : ", "2">>,
      <<"Task ended with ", "code", " : ", "4">>,
      <<"Generated ", "code", ":", "Code generation result: true">> }

RunTurns == [role : {"system"}, content : RunContents]

RunMemoryStates ==
    {MemAbsent, MemCorrupt} \cup {Log(q) : q \in SeqsUpTo(RunTurns, RunMaxTurns)}

NoMetricsFile == [exists |-> FALSE, data |-> InitialMetrics(0, FALSE)]

\* os.makedirs(results_dir): the path is made of the timestamp, the model,
\* the task and the run number, so every call starts with an empty directory
EmptyDir ==
    [stdout      |-> NoFile,
     stderr      |-> NoFile,
     timeout     |-> NoFile,
     error       |-> NoFile,
     memory      |-> MemAbsent,
     action_code |-> NoActionDir,
     metrics     |-> NoMetricsFile]

NoTask == [id |-> "", time_limit |-> <<>>]

NoRun ==
    [phase      |-> "none",
     model      |-> "",
     task       |-> NoTask,
     agent_name |-> "",
     outcome    |-> "",
     stdout     |-> <<>>,
     stderr     |-> <<>>,
     error      |-> "",
     kept       |-> FALSE,
     steps      |-> <<>>]

RunInit ==
    /\ fs \in { [n \in FileNames |-> IF n = "settings.js" THEN s ELSE Absent]
                : s \in {Absent} \cup {Full(d) : d \in UserSettings} }
    /\ memory \in RunMemoryStates
    /\ actionCode \in ActionDirs
    /\ staged = NoStaged
    /\ results_dir = EmptyDir
    /\ run = NoRun
    /\ returned = Returned(InitialMetrics(0, FALSE))

\* setup_profile raises and run_benchmark ends there
RunFailsToStage ==
    /\ run.phase # "running"
    /\ \E model \in Models, task \in Tasks :
          /\ setup_profile(model).exc # "none"
          /\ returned' = Raised(setup_profile(model).exc, InitialMetrics(0, FALSE))
          /\ run' = [NoRun EXCEPT !.phase = "raised", !.model = model.name,
                                  !.task = task]
    /\ UNCHANGED <<fs, memory, actionCode, staged, results_dir, runFrame>>

\* setup_profile, edit_settings([profile_path]), os.makedirs, and the start
\* of the subprocess
RunStarts ==
    /\ run.phase # "running"
    /\ \E model \in Models, task \in Tasks :
          LET setup == setup_profile(model)
          IN  /\ setup.exc = "none"
              /\ staged' = [path |-> setup.ret.profile_path, source |-> model.profile]
              /\ fs' = edit_settings(fs, <<setup.ret.profile_path>>)
              /\ results_dir' = EmptyDir
              /\ run' = [NoRun EXCEPT !.phase = "running", !.model = model.name,
                                      !.task = task,
                                      !.agent_name = setup.ret.agent_name,
                                      !.steps = <<"stage", "settings", "makedirs">>]
    /\ UNCHANGED <<memory, actionCode, returned, runFrame>>

\* the rest of run_benchmark once the try statement is left: dir is the
\* results directory with the logs written, mem and code what the agent
\* left under bots/<agent_name>/
Collect(dir, mem, code, time_taken, outcome, out, err, error) ==
    LET withMemory == IF mem.kind # "absent"
                      THEN [dir EXCEPT !.memory = mem]
                      ELSE dir
        withCode   == IF code.exists
                      THEN [withMemory EXCEPT !.action_code = code]
                      ELSE withMemory
        success    == check_task_completion(mem)
        metrics    == calculate_metrics(mem, time_taken, success.ret)
        ended      == [run EXCEPT !.outcome = outcome, !.stdout = out,
                                  !.stderr = err, !.error = error,
                                  !.kept = (mem = memory)]
    IN  /\ memory' = mem
        /\ actionCode' = code
        /\ IF success.exc # "none"
           THEN /\ results_dir' = withCode
                /\ returned' = Raised(success.exc, InitialMetrics(0, FALSE))
                /\ run' = [ended EXCEPT !.phase = "raised",
                                        !.steps = run.steps \o <<"logs", "copy">>]
           ELSE IF metrics.exc # "none"
           THEN /\ results_dir' = withCode
                /\ returned' = Raised(metrics.exc, InitialMetrics(0, FALSE))
                /\ run' = [ended EXCEPT !.phase = "raised",
                                        !.steps = run.steps \o <<"logs", "copy", "check">>]
           ELSE /\ results_dir' = [withCode EXCEPT !.metrics =
                                      [exists |-> TRUE, data |-> metrics.ret]]
                /\ returned' = Returned(metrics.ret)
                /\ run' = [ended EXCEPT !.phase = "finished",
                                        !.steps = run.steps \o
                                           <<"logs", "copy", "check", "metrics", "save">>]
        /\ UNCHANGED <<fs, staged, runFrame>>

\* subprocess.run returns: exit status 0 within the time limit
ProcessExitsZero ==
    /\ run.phase = "running"
    /\ \E mem \in {memory} \cup RunMemoryStates, code \in ActionDirs,
          process \in ProcessOutputs, time_taken \in ElapsedTimes :
          Collect([results_dir EXCEPT !.stdout = File(process.stdout),
                                      !.stderr = File(process.stderr)],
                  mem, code, time_taken, "zero", process.stdout, process.stderr, "")

\* check=True: a non-zero exit status raises CalledProcessError
ProcessExitsNonZero ==
    /\ run.phase = "running"
    /\ \E mem \in {memory} \cup RunMemoryStates, code \in ActionDirs,
          time_taken \in ElapsedTimes :
          LET e == "Command returned non-zero exit status 1"
          IN  Collect([results_dir EXCEPT !.error = File(<<"Error: ", e>>)],
                      mem, code, time_taken, "nonzero", <<>>, <<>>, e)

ProcessTimesOutCaughtAsError ==
    /\ run.phase = "running"
    /\ \E mem \in {memory} \cup RunMemoryStates, code \in ActionDirs :
          LET e == "Command timed out"
          IN  Collect([results_dir EXCEPT !.error = File(<<"Error: ", e>>)],
                      mem, code, Timeout(run.task), "timeout", <<>>, <<>>, e)

\* subprocess.TimeoutExpired after time_limit + 60 seconds
ProcessTimesOut ==
    /\ run.phase = "running"
    /\ \E mem \in {memory} \cup RunMemoryStates, code \in ActionDirs :
          Collect([results_dir EXCEPT !.timeout = File(<<"Task timed out">>)],
                  mem, code, Timeout(run.task), "timeout", <<>>, <<>>, "")

\* any other exception of subprocess.run: the process never ran
ProcessFailsToLaunch ==
    /\ run.phase = "running"
    /\ \E time_taken \in ElapsedTimes :
          LET e == "No such file or directory: 'node'"
          IN  Collect([results_dir EXCEPT !.error = File(<<"Error: ", e>>)],
                      memory, actionCode, time_taken, "exception", <<>>, <<>>, e)

RunNext ==
    \/ RunFailsToStage
    \/ RunStarts
    \/ ProcessExitsZero
    \/ ProcessExitsNonZero
    \/ ProcessTimesOut
    \/ ProcessFailsToLaunch

----------------------------------------------------------------------------
(* generate_report                                                         *)

MaxReportRuns == 2

ReportModels == {"gpt", "claude"}

ReportTasks == {"t1", "t2"}

\* the metrics of a run that completed after generating code, and of a run
\* that failed and left no memory log
ReportMetrics ==
    { [task_completion             |-> TRUE,
       time_taken                  |-> 1,
       code_generation_attempts    |-> 2,
       code_execution_success_rate |-> Rat(1, 2),
       tokens_consumed             |-> Rat(43, 4)],
      InitialMetrics(2, FALSE) }

\* the dictionaries with keys in S and values in V
Dicts(S, V) == UNION {[D -> V] : D \in SUBSET S}

\* the runs of a (model, task) pair are numbered from 1
RunDicts == UNION {[1..n -> ReportMetrics] : n \in 0..MaxReportRuns}

ResultsMappings == Dicts(ReportModels, Dicts(ReportTasks, RunDicts))

RECURSIVE SetToSeq(_)
SetToSeq(S) ==
    IF S = {} THEN <<>>
    ELSE LET x == CHOOSE y \in S : TRUE
         IN  <<x>> \o SetToSeq(S \ {x})

\* the three nested loops over results.items()
Keys(res) ==
    {<<model_name, task_id, run_num>> \in
        (DOMAIN res) \X ReportTasks \X (1..MaxReportRuns) :
            /\ task_id \in DOMAIN res[model_name]
            /\ run_num \in DOMAIN res[model_name][task_id]}

\* data.append({...}) for every (model, task, run)
DataRows(res) ==
    LET keys == SetToSeq(Keys(res))
    IN  [i \in 1..Len(keys) |->
            LET metrics == res[keys[i][1]][keys[i][2]][keys[i][3]]
            IN  [Model             |-> keys[i][1],
                 Task              |-> keys[i][2],
                 Run               |-> keys[i][3],
                 Completed         |-> metrics.task_completion,
                 Time              |-> metrics.time_taken,
                 CodeAttempts      |-> metrics.code_generation_attempts,
                 CodeSuccessRate   |-> metrics.code_execution_success_rate,
                 Tokens            |-> metrics.tokens_consumed]]

RECURSIVE RatSum(_)
RatSum(values) ==
    IF values = <<>> THEN Zero ELSE RatAdd(Head(values), RatSum(Tail(values)))

MeanAsSum(values) == RatSum(values)

\* the "mean" aggregation of one column of a group
Mean(values) == Rat(RatSum(values).num, RatSum(values).den * Len(values))

SelectRows(rows, model_name, task_id) ==
    SelectSeq(rows, LAMBDA row : row.Model = model_name /\ row.Task = task_id)

\* df.groupby(["Model", "Task"]).agg(...).reset_index(): one row per group
SummaryRows(rows) ==
    LET groups == SetToSeq({<<rows[i].Model, rows[i].Task>> : i \in 1..Len(rows)})
    IN  [g \in 1..Len(groups) |->
            LET group == SelectRows(rows, groups[g][1], groups[g][2])
                n     == Len(group)
            IN  [Model           |-> groups[g][1],
                 Task            |-> groups[g][2],
                 Completed       |-> Mean([i \in 1..n |->
                                        Rat(IF group[i].Completed THEN 1 ELSE 0, 1)]),
                 Time            |-> Mean([i \in 1..n |-> Rat(group[i].Time, 1)]),
                 CodeAttempts    |-> Mean([i \in 1..n |-> Rat(group[i].CodeAttempts, 1)]),
                 CodeSuccessRate |-> Mean([i \in 1..n |-> group[i].CodeSuccessRate]),
                 Tokens          |-> Mean([i \in 1..n |-> group[i].Tokens])]]

NoCsv == [exists |-> FALSE, rows |-> <<>>]

Csv(rows) == [exists |-> TRUE, rows |-> rows]

NoReport == [called |-> FALSE, exc |-> "none", data |-> NoCsv, summary |-> NoCsv]

\* the report up to the two to_csv calls; a DataFrame built from an empty
\* list has no columns, so groupby(["Model", "Task"]) raises KeyError and
\* benchmark_summary.csv is not written
generate_report(res) ==
    LET rows == DataRows(res)
    IN  IF rows = <<>>
        THEN [called |-> TRUE, exc |-> "KeyError", data |-> Csv(rows), summary |-> NoCsv]
        ELSE [called  |-> TRUE,
              exc     |-> "none",
              data    |-> Csv(rows),
              summary |-> Csv(SummaryRows(rows))]

ReportInit ==
    /\ results \in ResultsMappings
    /\ report = NoReport

GenerateReport ==
    /\ ~report.called
    /\ report' = generate_report(results)
    /\ UNCHANGED reportFrame

ReportNext == GenerateReport

----------------------------------------------------------------------------
(* Specifications                                                          *)

SettingsIdle ==
    /\ fs = [n \in FileNames |-> Absent]
    /\ pc = "idle"
    /\ newContent = NoData
    /\ pre = Absent
    /\ hist = <<>>
    /\ snap = fs
    /\ established = FALSE
    /\ seen = [value |-> Absent, during |-> FALSE, old |-> Absent, new |-> NoData]

MemoryIdle ==
    /\ memory = MemAbsent
    /\ checked = [done |-> FALSE, out |-> Returned(FALSE)]
    /\ measured = [done |-> FALSE, out |-> Returned(InitialMetrics(0, FALSE))]

RunIdle ==
    /\ staged = NoStaged
    /\ actionCode = NoActionDir
    /\ results_dir = EmptyDir
    /\ run = NoRun
    /\ returned = Returned(InitialMetrics(0, FALSE))

ReportIdle ==
    /\ results = <<>>
    /\ report = NoReport

InitSettings == SettingsInit /\ MemoryIdle /\ RunIdle /\ ReportIdle

SpecSettings == InitSettings /\ [][SettingsNext]_vars

InitMemory == MemoryInit /\ SettingsIdle /\ RunIdle /\ ReportIdle

SpecMemory == InitMemory /\ [][MemoryNext]_vars

InitReport == ReportInit /\ SettingsIdle /\ MemoryIdle /\ RunIdle

SpecReport == InitReport /\ [][ReportNext]_vars

InitRun ==
    /\ RunInit
    /\ pc = "idle"
    /\ newContent = NoData
    /\ pre = Absent
    /\ hist = <<>>
    /\ snap = fs
    /\ established = Exists(fs, "settings.js")
    /\ seen = [value |-> Absent, during |-> FALSE, old |-> Absent, new |-> NoData]
    /\ checked = [done |-> FALSE, out |-> Returned(FALSE)]
    /\ measured = [done |-> FALSE, out |-> Returned(InitialMetrics(0, FALSE))]
    /\ results = <<>>
    /\ report = NoReport

SpecRun == InitRun /\ [][RunNext]_vars

----------------------------------------------------------------------------
(* Properties                                                              *)

IsSystem2(turn) == turn.role = "system" /\ Contains(CODE_2, turn.content)

IsSystem4(turn) == turn.role = "system" /\ Contains(CODE_4, turn.content)

\* the files of the working directory other than settings.js
OtherFiles(f) == {n \in FileNames \ {"settings.js"} : Exists(f, n)}

\* C1: after edit_settings followed at once by restore_settings, settings.js
\* has the content it had before the edit and settings.js.bak is gone; a
\* second restore_settings right after changes neither.
C1_EditThenRestore ==
    /\ (pc = "idle" /\ hist = <<"edit", "restore">> /\ pre.state = "full") =>
          /\ fs["settings.js"] = pre
          /\ ~Exists(fs, "settings.js.bak")
    /\ (pc = "idle" /\ hist = <<"restore", "restore">>) =>
          /\ fs["settings.js"] = snap["settings.js"]
          /\ ~Exists(snap, "settings.js.bak")
          /\ ~Exists(fs, "settings.js.bak")

C1_Witness ==
    /\ pc = "idle"
    /\ hist = <<"edit", "restore">>
    /\ pre.state = "full"
    /\ pre.data # newContent
    /\ fs["settings.js"] = pre

\* C2 as stated: check_task_completion returns True exactly when, scanning
\* from the last turn, a system turn with 'code : 2' comes strictly before
\* every system turn with 'code : 4'.
C2_Original ==
    checked.done =>
        /\ checked.out.exc = "none"
        /\ checked.out.ret <=>
              /\ memory.kind = "log"
              /\ \E i \in 1..Len(memory.turns) :
                    /\ IsSystem2(memory.turns[i])
                    /\ \A j \in i..Len(memory.turns) : ~IsSystem4(memory.turns[j])

\* C2 amended: check_task_completion returns True exactly when some system
\* turn has 'code : 2' and no later turn is a system turn with 'code : 4'
\* (a turn that has both markers counts as success); it returns False for a
\* missing or corrupt memory file.
C2_Amended ==
    checked.done =>
        /\ checked.out.exc = "none"
        /\ checked.out.ret <=>
              /\ memory.kind = "log"
              /\ \E i \in 1..Len(memory.turns) :
                    /\ IsSystem2(memory.turns[i])
                    /\ \A j \in (i + 1)..Len(memory.turns) : ~IsSystem4(memory.turns[j])

C2_Witness ==
    /\ checked.done
    /\ checked.out.ret
    /\ memory.kind = "log"
    /\ Len(memory.turns) = 3
    /\ IsSystem4(memory.turns[1])
    /\ IsSystem2(memory.turns[2]) /\ ~IsSystem4(memory.turns[2])
    /\ memory.turns[3].role = "system" /\ Contains(CODE, memory.turns[3].content)

\* C3: once the profile is staged, run_benchmark never raises: whatever the
\* subprocess did and whatever the agent left behind, the memory log and the
\* action code are copied, the completion check and the metrics run, and
\* the metrics returned are the ones saved as metrics.json.
C3_AlwaysMetrics ==
    /\ run.phase = "raised" => run.steps = <<>>
    /\ run.phase = "finished" =>
          /\ run.outcome \in {"zero", "nonzero", "timeout", "exception"}
          /\ returned.exc = "none"
          /\ results_dir.metrics.exists
          /\ results_dir.metrics.data = returned.ret
          /\ results_dir.memory = memory
          /\ results_dir.action_code = actionCode
          /\ run.steps = <<"stage", "settings", "makedirs",
                           "logs", "copy", "check", "metrics", "save">>

C3_Witness ==
    /\ run.phase = "finished"
    /\ run.outcome = "nonzero"
    /\ memory.kind = "corrupt"
    /\ ~actionCode.exists
    /\ results_dir.metrics.exists

\* the (model, task, run) triples of a results mapping
Triples(res) ==
    UNION { UNION { {<<m, t, r>> : r \in DOMAIN res[m][t]} : t \in DOMAIN res[m] }
            : m \in DOMAIN res }

Pairs(res) == {<<k[1], k[2]>> : k \in Triples(res)}

RunsOf(res, pair) == DOMAIN res[pair[1]][pair[2]]

CompletedRunsOf(res, pair) ==
    {r \in RunsOf(res, pair) : res[pair[1]][pair[2]][r].task_completion}

\* C4: benchmark_data.csv has exactly one row per (model, task, run) of the
\* mapping, benchmark_summary.csv exactly one row per (model, task) pair,
\* and the pair's Completed value is completed runs / runs, within [0, 1].
C4_ReportRows ==
    report.called =>
        LET data    == report.data.rows
            summary == report.summary.rows
        IN  /\ report.data.exists
            /\ Len(data) = Cardinality(Triples(results))
            /\ \A k \in Triples(results) :
                  Cardinality({i \in 1..Len(data) :
                      <<data[i].Model, data[i].Task, data[i].Run>> = k}) = 1
            /\ Len(summary) = Cardinality(Pairs(results))
            /\ \A pair \in Pairs(results) :
                  /\ Cardinality({i \in 1..Len(summary) :
                        <<summary[i].Model, summary[i].Task>> = pair}) = 1
                  /\ \A i \in 1..Len(summary) :
                        <<summary[i].Model, summary[i].Task>> = pair =>
                            /\ RatEq(summary[i].Completed,
                                     Rat(Cardinality(CompletedRunsOf(results, pair)),
                                         Cardinality(RunsOf(results, pair))))
                            /\ summary[i].Completed.den > 0
                            /\ 0 <= summary[i].Completed.num
                            /\ summary[i].Completed.num <= summary[i].Completed.den

C4_Witness ==
    /\ report.called
    /\ report.summary.exists
    /\ \E i \in 1..Len(report.summary.rows) :
          LET row == report.summary.rows[i]
          IN  /\ Cardinality(RunsOf(results, <<row.Model, row.Task>>)) = 2
              /\ Cardinality(CompletedRunsOf(results, <<row.Model, row.Task>>)) = 1
              /\ RatEq(row.Completed, Rat(1, 2))

SystemTurnsWith(turns, needle) ==
    {i \in 1..Len(turns) : turns[i].role = "system" /\ Contains(needle, turns[i].content)}

\* C5: for a readable memory log, code_generation_attempts is the number of
\* system turns with 'Generated code:', and code_execution_success_rate is
\* the number of system turns with 'Code generation result: true' divided
\* by the attempts, or 0 when there are no attempts.
C5_SuccessRate ==
    (measured.done /\ memory.kind = "log") =>
        LET attempts  == Cardinality(SystemTurnsWith(memory.turns, GENERATED_CODE))
            successes == Cardinality(SystemTurnsWith(memory.turns, RESULT_TRUE))
            metrics   == measured.out.ret
        IN  /\ measured.out.exc = "none"
            /\ metrics.code_generation_attempts = attempts
            /\ metrics.code_execution_success_rate.den > 0
            /\ attempts > 0 =>
                  RatEq(metrics.code_execution_success_rate, Rat(successes, attempts))
            /\ attempts = 0 => metrics.code_execution_success_rate = Zero

C5_Witness ==
    /\ measured.done
    /\ memory.kind = "log"
    /\ measured.out.ret.code_generation_attempts = 2
    /\ RatEq(measured.out.ret.code_execution_success_rate, Rat(1, 2))
    /\ \E i \in 1..Len(memory.turns) :
          /\ memory.turns[i].role = "user"
          /\ Contains(GENERATED_CODE, memory.turns[i].content)

\* C6 as stated: after any completed edit_settings or restore_settings call
\* there is exactly one settings.js and at most one backup.
C6_Original ==
    (pc = "idle" /\ hist # <<>>) =>
        /\ Exists(fs, "settings.js")
        /\ OtherFiles(fs) \subseteq {"settings.js.bak"}

\* C6 amended: between calls, once settings.js was there at the start or an
\* edit_settings call has completed, there is exactly one settings.js, and
\* the only other file is at most the one backup settings.js.bak.
C6_Amended ==
    (pc = "idle" /\ established) =>
        /\ Exists(fs, "settings.js")
        /\ fs["settings.js"].state = "full"
        /\ OtherFiles(fs) \subseteq {"settings.js.bak"}

C6_Witness ==
    /\ pc = "idle"
    /\ established
    /\ hist = <<"edit", "edit">>
    /\ Exists(fs, "settings.js")
    /\ OtherFiles(fs) = {"settings.js.bak"}
    /\ fs["settings.js.bak"] = pre

\* the last turn of the given kind, 0 when there is none
LastTurn(turns, Kind(_)) ==
    LET marked == {i \in 1..Len(turns) : Kind(turns[i])}
    IN  IF marked = {} THEN 0 ELSE CHOOSE i \in marked : \A j \in marked : j <= i

\* a system turn that carries a completion code: 'code : '
CarriesCode(turn) ==
    turn.role = "system" /\ Contains(<<"code", " : ">>, turn.content)

CarriesCode2Or4(turn) == IsSystem2(turn) \/ IsSystem4(turn)

C8_TimeoutStillMeasured ==
    (run.phase # "running" /\ run.outcome = "timeout") =>
        /\ run.phase = "finished"
        /\ results_dir.timeout = File(<<"Task timed out">>)
        /\ SubSeq(run.steps, 6, 7) = <<"check", "metrics">>
        /\ returned.exc = "none"
        /\ results_dir.metrics = [exists |-> TRUE, data |-> returned.ret]
        /\ returned.ret.task_completion =>
              /\ memory.kind = "log"
              /\ \E i \in 1..Len(memory.turns) : IsSystem2(memory.turns[i])
        /\ memory.kind = "log" =>
              returned.ret.code_generation_attempts =
                  Cardinality(SystemTurnsWith(memory.turns, GENERATED_CODE))
        /\ memory.kind = "absent" =>
              /\ returned.ret.task_completion = FALSE
              /\ returned.ret.code_generation_attempts = 0
              /\ returned.ret.code_execution_success_rate = Zero
              /\ returned.ret.tokens_consumed = Zero

C8_Witness ==
    /\ run.phase = "finished"
    /\ run.outcome = "timeout"
    /\ run.kept
    /\ returned.ret.task_completion
    /\ results_dir.timeout.exists

OnlyLogs(dir, names) ==
    /\ dir.stdout.exists  <=> "stdout.log" \in names
    /\ dir.stderr.exists  <=> "stderr.log" \in names
    /\ dir.timeout.exists <=> "timeout.log" \in names
    /\ dir.error.exists   <=> "error.log" \in names

\* C9: exit status 0 leaves stdout.log and stderr.log with the captured
\* streams and no marker log; a timeout leaves only timeout.log; a non-zero
\* exit or another exception leaves only error.log with the description.
C9_LogsByOutcome ==
    run.phase \in {"finished", "raised"} /\ run.steps # <<>> =>
        /\ run.outcome = "zero" =>
              /\ OnlyLogs(results_dir, {"stdout.log", "stderr.log"})
              /\ results_dir.stdout.text = run.stdout
              /\ results_dir.stderr.text = run.stderr
        /\ run.outcome = "timeout" =>
              OnlyLogs(results_dir, {"timeout.log"})
        /\ run.outcome \in {"nonzero", "exception"} =>
              /\ OnlyLogs(results_dir, {"error.log"})
              /\ Contains(<<run.error>>, results_dir.error.text)

C9_Witness ==
    /\ run.phase = "finished"
    /\ run.outcome = "zero"
    /\ run.stdout # run.stderr
    /\ results_dir.stdout = File(run.stdout)
    /\ results_dir.stderr = File(run.stderr)

\* C10: a process that reads settings.js between the steps of edit_settings
\* sees the whole previous content or the whole new content when the file
\* was there before the call: the new content is complete in
\* settings.js.tmp before the move, and settings.js stays as it was until
\* the move, the last step.
C10_ReadersSeeWholeFile ==
    /\ (seen.during /\ seen.old.state = "full") =>
          seen.value \in {seen.old, Full(seen.new)}
    /\ (pc # "idle" /\ pre.state = "full") => fs["settings.js"] = pre
    /\ pc = "moving" => fs["settings.js.tmp"] = Full(newContent)
    /\ (pc = "idle" /\ hist # <<>> /\ hist[Len(hist)] = "edit") =>
          /\ fs["settings.js"] = Full(newContent)
          /\ ~Exists(fs, "settings.js.tmp")

C10_Witness ==
    /\ pc = "moving"
    /\ seen.during
    /\ seen.old.state = "full"
    /\ seen.old = pre
    /\ seen.new = newContent
    /\ seen.value = pre
    /\ fs["settings.js.bak"] = pre

====
